---- MODULE Spec2Model ----
(***************************************************************************)
(* Model of backend/lambda_function.py: the weather request handler.       *)
(*                                                                         *)
(* A text (a Python str) is a sequence of lexemes.  A lexeme is a          *)
(* punctuation mark, a bare word, a number, the literal null, or a quoted  *)
(* string literal that carries its own text.  A Python object that came    *)
(* out of json.loads is a tagged record (null, str, num, arr, obj); an obj *)
(* keeps its members as a sequence of <<key, value>> pairs with unique     *)
(* keys, in insertion order, as a Python dict does.                        *)
(***************************************************************************)
EXTENDS Integers, Sequences, FiniteSets, TLC

\* ------------------------------------------------------------------------
\* Lexemes and texts
\* ------------------------------------------------------------------------
P(c) == [k |-> c]
W(w) == [k |-> "word", w |-> w]
N(n) == [k |-> "num", n |-> n]
Q(text) == [k |-> "str", s |-> text]

LBRACE == P("{")
RBRACE == P("}")
LBRACK == P("[")
RBRACK == P("]")
COLON == P(":")
COMMA == P(",")
NULLTOK == P("null")

\* ------------------------------------------------------------------------
\* Python objects
\* ------------------------------------------------------------------------
None == [t |-> "null"]
Str(text) == [t |-> "str", s |-> text]
Num(n) == [t |-> "num", n |-> n]
Arr(e) == [t |-> "arr", e |-> e]
Obj(m) == [t |-> "obj", m |-> m]

EmptyDict == Obj(<<>>)

\* bool(v): the truth value Python gives an object in `if v` / `if not v`.
Truthy(v) ==
    CASE v.t = "null" -> FALSE
      [] v.t = "str" -> Len(v.s) > 0
      [] v.t = "num" -> v.n # 0
      [] v.t = "arr" -> Len(v.e) > 0
      [] v.t = "obj" -> Len(v.m) > 0

\* type(v).__name__
TypeName(v) ==
    CASE v.t = "null" -> "NoneType"
      [] v.t = "str" -> "str"
      [] v.t = "num" -> "int"
      [] v.t = "arr" -> "list"
      [] v.t = "obj" -> "dict"

HasKey(m, key) == \E i \in 1..Len(m) : m[i][1] = key

Lookup(m, key) == m[CHOOSE i \in 1..Len(m) : m[i][1] = key][2]

\* d[key] = v on a dict: replaces the value of an existing key in place,
\* appends a new key.
SetItem(m, key, v) ==
    IF HasKey(m, key)
    THEN [i \in 1..Len(m) |-> IF m[i][1] = key THEN <<key, v>> ELSE m[i]]
    ELSE Append(m, <<key, v>>)

\* ------------------------------------------------------------------------
\* json.loads / json.dumps
\* ------------------------------------------------------------------------
ParseFail == [ok |-> FALSE]
ParseOk(v, next) == [ok |-> TRUE, val |-> v, next |-> next]

RECURSIVE ParseValue(_, _)
RECURSIVE ParseElements(_, _, _)
RECURSIVE ParseMembers(_, _, _)

ParseValue(text, i) ==
    IF i > Len(text) THEN ParseFail
    ELSE LET tk == text[i] IN
         CASE tk.k = "null" -> ParseOk(None, i + 1)
           [] tk.k = "str" -> ParseOk(Str(tk.s), i + 1)
           [] tk.k = "num" -> ParseOk(Num(tk.n), i + 1)
           [] tk.k = "[" ->
                IF i + 1 <= Len(text) /\ text[i + 1].k = "]"
                THEN ParseOk(Arr(<<>>), i + 2)
                ELSE ParseElements(text, i + 1, <<>>)
           [] tk.k = "{" ->
                IF i + 1 <= Len(text) /\ text[i + 1].k = "}"
                THEN ParseOk(EmptyDict, i + 2)
                ELSE ParseMembers(text, i + 1, <<>>)
           [] OTHER -> ParseFail

ParseElements(text, i, acc) ==
    LET r == ParseValue(text, i) IN
    IF ~r.ok \/ r.next > Len(text) THEN ParseFail
    ELSE CASE text[r.next].k = "," ->
                ParseElements(text, r.next + 1, Append(acc, r.val))
           [] text[r.next].k = "]" ->
                ParseOk(Arr(Append(acc, r.val)), r.next + 1)
           [] OTHER -> ParseFail

ParseMembers(text, i, acc) ==
    IF i + 1 > Len(text) \/ text[i].k # "str" \/ text[i + 1].k # ":"
    THEN ParseFail
    ELSE LET r == ParseValue(text, i + 2) IN
         IF ~r.ok \/ r.next > Len(text) THEN ParseFail
         ELSE CASE text[r.next].k = "," ->
                     ParseMembers(text, r.next + 1,
                                  SetItem(acc, text[i].s, r.val))
                [] text[r.next].k = "}" ->
                     ParseOk(Obj(SetItem(acc, text[i].s, r.val)), r.next + 1)
                [] OTHER -> ParseFail

\* json.loads(text): the decoded object, or a JSONDecodeError when the text
\* is not one complete JSON document.
JsonLoads(text) ==
    LET r == ParseValue(text, 1) IN
    IF r.ok /\ r.next = Len(text) + 1
    THEN [ok |-> TRUE, val |-> r.val]
    ELSE [ok |-> FALSE]

RECURSIVE JsonDumps(_)
RECURSIVE DumpElements(_, _)
RECURSIVE DumpMembers(_, _)

JsonDumps(v) ==
    CASE v.t = "null" -> <<NULLTOK>>
      [] v.t = "str" -> <<Q(v.s)>>
      [] v.t = "num" -> <<N(v.n)>>
      [] v.t = "arr" -> <<LBRACK>> \o DumpElements(v.e, 1) \o <<RBRACK>>
      [] v.t = "obj" -> <<LBRACE>> \o DumpMembers(v.m, 1) \o <<RBRACE>>

DumpElements(e, i) ==
    IF i > Len(e) THEN <<>>
    ELSE JsonDumps(e[i])
         \o (IF i < Len(e) THEN <<COMMA>> ELSE <<>>)
         \o DumpElements(e, i + 1)

DumpMembers(m, i) ==
    IF i > Len(m) THEN <<>>
    ELSE <<Q(m[i][1]), COLON>> \o JsonDumps(m[i][2])
         \o (IF i < Len(m) THEN <<COMMA>> ELSE <<>>)
         \o DumpMembers(m, i + 1)

\* ------------------------------------------------------------------------
\* Python expression results: a value, or a raised exception
\* ------------------------------------------------------------------------
Txt(w) == <<W(w)>>

Val(v) == [ok |-> TRUE, val |-> v]
Raise(cls, msg) == [ok |-> FALSE, exc |-> [cls |-> cls, msg |-> msg]]

\* v.get(key, default): only a dict has the attribute `get`.
Get(v, key, default) ==
    IF v.t = "obj"
    THEN Val(IF HasKey(v.m, key) THEN Lookup(v.m, key) ELSE default)
    ELSE Raise("AttributeError",
               <<W("'"), W(TypeName(v)), W("' object has no attribute 'get'")>>)

\* v[0]
Subscript0(v) ==
    CASE v.t = "arr" ->
            IF Len(v.e) > 0 THEN Val(v.e[1])
            ELSE Raise("IndexError", Txt("list index out of range"))
      [] v.t = "str" ->
            IF Len(v.s) > 0 THEN Val(Str(<<v.s[1]>>))
            ELSE Raise("IndexError", Txt("string index out of range"))
      [] v.t = "obj" -> Raise("KeyError", Txt("0"))
      [] OTHER ->
            Raise("TypeError",
                  <<W("'"), W(TypeName(v)), W("' object is not subscriptable")>>)

\* ------------------------------------------------------------------------
\* Exception classes: the classes an `except C` clause matches
\* ------------------------------------------------------------------------
Mro(cls) ==
    CASE cls = "HTTPError" ->
            {"HTTPError", "RequestException", "OSError", "Exception"}
      [] cls = "ConnectionError" ->
            {"ConnectionError", "RequestException", "OSError", "Exception"}
      [] cls = "ConnectTimeout" ->
            {"ConnectTimeout", "ConnectionError", "Timeout",
             "RequestException", "OSError", "Exception"}
      [] cls = "ReadTimeout" ->
            {"ReadTimeout", "Timeout", "RequestException", "OSError",
             "Exception"}
      [] cls = "MissingSchema" ->
            {"MissingSchema", "RequestException", "OSError", "ValueError",
             "Exception"}
      [] cls = "json.JSONDecodeError" ->
            {"json.JSONDecodeError", "ValueError", "Exception"}
      [] cls = "requests.JSONDecodeError" ->
            {"requests.JSONDecodeError", "InvalidJSONError",
             "RequestException", "OSError", "json.JSONDecodeError",
             "ValueError", "Exception"}
      [] cls = "requests.JSONDecodeError[simplejson]" ->
            {"requests.JSONDecodeError[simplejson]", "InvalidJSONError",
             "RequestException", "OSError", "simplejson.JSONDecodeError",
             "ValueError", "Exception"}
      [] cls = "simplejson.JSONDecodeError" ->
            {"simplejson.JSONDecodeError", "ValueError", "Exception"}
      [] cls \in {"IndexError", "KeyError"} ->
            {cls, "LookupError", "Exception"}
      [] OTHER -> {cls, "Exception"}

\* What response.json() raises on a payload that is not JSON depends on the
\* installed requests release and on whether simplejson is importable.
ResponseJsonErrors ==
    {"json.JSONDecodeError", "requests.JSONDecodeError",
     "requests.JSONDecodeError[simplejson]", "simplejson.JSONDecodeError"}

\* ------------------------------------------------------------------------
\* The responses lambda_handler returns
\* ------------------------------------------------------------------------
ErrorBody(message) == JsonDumps(Obj(<< <<Txt("error"), Str(Txt(message))>> >>))

MissingCityResponse ==
    [statusCode |-> 400,
     headers |->
        ("Content-Type" :> "application/json")
        @@ ("Access-Control-Allow-Origin" :> "*")
        @@ ("Access-Control-Allow-Methods" :> "GET,POST,OPTIONS")
        @@ ("Access-Control-Allow-Headers" :>
              "Content-Type,X-Amz-Date,Authorization,X-Api-Key,X-Amz-Security-Token"),
     body |-> ErrorBody("City parameter missing in request body or query string.")]

CityRequiredResponse ==
    [statusCode |-> 400,
     headers |->
        ("Content-Type" :> "application/json")
        @@ ("Access-Control-Allow-Origin" :> "*")
        @@ ("Access-Control-Allow-Methods" :> "GET,POST,OPTIONS")
        @@ ("Access-Control-Allow-Headers" :>
              "Content-Type,X-Amz-Date,Authorization,X-Api-Key,X-Amz-Security-Token"),
     body |-> ErrorBody("City parameter is required.")]

SuccessResponse(formatted_weather) ==
    [statusCode |-> 200,
     headers |->
        ("Content-Type" :> "application/json")
        @@ ("Access-Control-Allow-Origin" :> "*")
        @@ ("Access-Control-Allow-Methods" :> "GET,POST,OPTIONS")
        @@ ("Access-Control-Allow-Headers" :>
              "Content-Type,X-Amz-Date,Authorization,X-Api-Key,X-Amz-Security-Token"),
     body |-> JsonDumps(formatted_weather)]

\* except requests.exceptions.HTTPError as e; reply is e.response
HTTPErrorResponse(reply) ==
    LET status_code == reply.status_code
        error_message == Txt("HTTP error occurred: ") \o reply.text
    IN [statusCode |-> status_code,
        headers |->
           ("Content-Type" :> "application/json")
           @@ ("Access-Control-Allow-Origin" :> "*")
           @@ ("Access-Control-Allow-Methods" :> "GET,POST,OPTIONS")
           @@ ("Access-Control-Allow-Headers" :>
                 "Content-Type,X-Amz-Date,Authorization,X-Api-Key,X-Amz-Security-Token"),
        body |-> JsonDumps(Obj(<<
                    <<Txt("error"),
                      Str(Txt("Failed to fetch weather data from external API."))>>,
                    <<Txt("details"), Str(error_message)>> >>))]

ConnectionErrorResponse ==
    [statusCode |-> 500,
     headers |->
        ("Content-Type" :> "application/json")
        @@ ("Access-Control-Allow-Origin" :> "*")
        @@ ("Access-Control-Allow-Methods" :> "GET,POST,OPTIONS")
        @@ ("Access-Control-Allow-Headers" :>
              "Content-Type,X-Amz-Date,Authorization,X-Api-Key,X-Amz-Security-Token"),
     body |-> ErrorBody("Network connection error while fetching weather data.")]

\* Variant: the timeout clause answers with the content type only.
TimeoutResponse_NoCORS ==
    [statusCode |-> 500,
     headers |-> ("Content-Type" :> "application/json"),
     body |-> ErrorBody("Request to external API timed out.")]

TimeoutResponse ==
    [statusCode |-> 500,
     headers |->
        ("Content-Type" :> "application/json")
        @@ ("Access-Control-Allow-Origin" :> "*")
        @@ ("Access-Control-Allow-Methods" :> "GET,POST,OPTIONS")
        @@ ("Access-Control-Allow-Headers" :>
              "Content-Type,X-Amz-Date,Authorization,X-Api-Key,X-Amz-Security-Token"),
     body |-> ErrorBody("Request to external API timed out.")]

InvalidJSONResponse ==
    [statusCode |-> 400,
     headers |->
        ("Content-Type" :> "application/json")
        @@ ("Access-Control-Allow-Origin" :> "*")
        @@ ("Access-Control-Allow-Methods" :> "GET,POST,OPTIONS")
        @@ ("Access-Control-Allow-Headers" :>
              "Content-Type,X-Amz-Date,Authorization,X-Api-Key,X-Amz-Security-Token"),
     body |-> ErrorBody("Invalid JSON in request body.")]

\* except Exception as e; details is str(e)
InternalErrorResponse(exc) ==
    [statusCode |-> 500,
     headers |->
        ("Content-Type" :> "application/json")
        @@ ("Access-Control-Allow-Origin" :> "*")
        @@ ("Access-Control-Allow-Methods" :> "GET,POST,OPTIONS")
        @@ ("Access-Control-Allow-Headers" :>
              "Content-Type,X-Amz-Date,Authorization,X-Api-Key,X-Amz-Security-Token"),
     body |-> JsonDumps(Obj(<<
                 <<Txt("error"), Str(Txt("Internal server error."))>>,
                 <<Txt("details"), Str(exc.msg)>> >>))]

\* ------------------------------------------------------------------------
\* The try block of lambda_handler
\* ------------------------------------------------------------------------
Returns(response) == [kind |-> "return", response |-> response]
Raises(exc) == [kind |-> "raise", exc |-> exc]

\* Lines 21-36: where the city comes from.
ExtractCity(ev) ==
    IF Truthy(ev.body)
    THEN LET parsed == JsonLoads(ev.body.s) IN
         IF ~parsed.ok
         THEN Raises([cls |-> "json.JSONDecodeError",
                      msg |-> Txt("Expecting value")])
         ELSE LET got == Get(parsed.val, Txt("city"), None) IN
              IF got.ok THEN [kind |-> "city", city |-> got.val]
              ELSE Raises(got.exc)
    ELSE IF Truthy(ev.queryStringParameters)
    THEN LET got == Get(ev.queryStringParameters, Txt("city"), None) IN
         IF got.ok THEN [kind |-> "city", city |-> got.val]
         ELSE Raises(got.exc)
    ELSE Returns(MissingCityResponse)

\* Variant: the upstream is called with whatever city was extracted.
BeforeCall_NoCityCheck(ev) ==
    LET x == ExtractCity(ev) IN
    IF x.kind # "city" THEN x ELSE [kind |-> "call", city |-> x.city]

\* Lines 21-66: everything up to the upstream call.
BeforeCall(ev) ==
    LET x == ExtractCity(ev) IN
    IF x.kind # "city" THEN x
    ELSE IF ~Truthy(x.city) THEN Returns(CityRequiredResponse)
    ELSE [kind |-> "call", city |-> x.city]

TIMEOUT == 10

\* Lines 53-67: the arguments of requests.get.
UpstreamRequest(c) ==
    [url |-> "WEATHER_API_URL",
     headers |-> <<"X-RapidAPI-Key", "X-RapidAPI-Host">>,
     params |-> Obj(<< <<Txt("place"), c>>,
                       <<Txt("units"), Str(Txt("standard"))>>,
                       <<Txt("mode"), Str(Txt("json"))>>,
                       <<Txt("lang"), Str(Txt("en"))>> >>),
     timeout |-> TIMEOUT]

\* Variant: only server errors (5xx) raise.
RaiseForStatus_ServerOnly(reply) ==
    IF 500 <= reply.status_code /\ reply.status_code < 600
    THEN Raise("HTTPError", Txt("Error for url"))
    ELSE Val(None)

\* response.raise_for_status()
RaiseForStatus(reply) ==
    IF 400 <= reply.status_code /\ reply.status_code < 600
    THEN Raise("HTTPError", Txt("Error for url"))
    ELSE Val(None)

\* first_forecast.get(section, {}).get(key)
SectionField(first_forecast, section, key) ==
    LET a == Get(first_forecast, Txt(section), EmptyDict) IN
    IF ~a.ok THEN a ELSE Get(a.val, Txt(key), None)

\* first_forecast.get('weather', [{}])[0].get(key)
WeatherField(first_forecast, key) ==
    LET a == Get(first_forecast, Txt("weather"), Arr(<<EmptyDict>>)) IN
    IF ~a.ok THEN a
    ELSE LET b == Subscript0(a.val) IN
         IF ~b.ok THEN b ELSE Get(b.val, Txt(key), None)

\* Lines 76-88: formatted_weather, or the first exception its evaluation
\* raises.
Reshape(c, weather_data, now) ==
    LET lst == Get(weather_data, Txt("list"), Arr(<<EmptyDict>>)) IN
    IF ~lst.ok THEN lst
    ELSE LET ff == Subscript0(lst.val) IN
    IF ~ff.ok THEN ff
    ELSE LET first_forecast == ff.val
             fields == <<
                <<"temperature", SectionField(first_forecast, "main", "temprature")>>,
                <<"feels_like", SectionField(first_forecast, "main", "temprature_feels_like")>>,
                <<"description", WeatherField(first_forecast, "description")>>,
                <<"icon", WeatherField(first_forecast, "icon")>>,
                <<"humidity", SectionField(first_forecast, "main", "humidity")>>,
                <<"wind_speed", SectionField(first_forecast, "wind", "speed")>> >>
             failed == {i \in 1..Len(fields) : ~fields[i][2].ok}
         IN IF failed # {}
            THEN fields[CHOOSE i \in failed : \A j \in failed : i <= j][2]
            ELSE Val(Obj(
                    << <<Txt("city"), c>>, <<Txt("country"), None>> >>
                    \o [i \in 1..Len(fields) |->
                          <<Txt(fields[i][1]), fields[i][2].val>>]
                    \o << <<Txt("timestamp"), Str(now)>> >>))

\* Lines 68-99: what the try block does with the reply of requests.get.
AfterReply(c, reply, now, jsonError) ==
    LET st == RaiseForStatus(reply) IN
    IF ~st.ok THEN Raises(st.exc)
    ELSE LET decoded == JsonLoads(reply.text) IN
         IF ~decoded.ok
         THEN Raises([cls |-> jsonError, msg |-> Txt("Expecting value")])
         ELSE LET fw == Reshape(c, decoded.val, now) IN
              IF ~fw.ok THEN Raises(fw.exc)
              ELSE Returns(SuccessResponse(fw.val))

\* ------------------------------------------------------------------------
\* The except clauses of lambda_handler, in source order
\* ------------------------------------------------------------------------
\* Variant: the try statement without its catch-all clause.
ExceptClauses_NoCatchAll ==
    <<"HTTPError", "ConnectionError", "Timeout", "json.JSONDecodeError">>

ExceptClauses ==
    <<"HTTPError", "ConnectionError", "Timeout", "json.JSONDecodeError",
      "Exception">>

\* The response of the first clause that matches the exception; reply is
\* e.response of an HTTPError.
Except(exc, reply) ==
    LET matching == {i \in 1..Len(ExceptClauses) : ExceptClauses[i] \in Mro(exc.cls)}
    IN IF matching = {} THEN [kind |-> "uncaught", exc |-> exc]
       ELSE LET clause == ExceptClauses[CHOOSE i \in matching :
                                          \A j \in matching : i <= j]
            IN Returns(CASE clause = "HTTPError" -> HTTPErrorResponse(reply)
                         [] clause = "ConnectionError" -> ConnectionErrorResponse
                         [] clause = "Timeout" -> TimeoutResponse
                         [] clause = "json.JSONDecodeError" -> InvalidJSONResponse
                         [] OTHER -> InternalErrorResponse(exc))

\* ------------------------------------------------------------------------
\* Inputs: inbound events and what the upstream provider can do
\* ------------------------------------------------------------------------
MaxBodyLen == 5
MaxElapsed == 12

BodyAlphabet ==
    {LBRACE, RBRACE, COLON, Q(Txt("city")), Q(Txt("Cairo")), Q(<<>>)}

BodyTexts == UNION {[1..n -> BodyAlphabet] : n \in 0..MaxBodyLen}

\* event.get('body'): absent/null, or a string
Bodies == {None} \cup {Str(text) : text \in BodyTexts}

\* event.get('queryStringParameters'): absent/null, or a mapping
QueryParams ==
    {None,
     EmptyDict,
     Obj(<< <<Txt("city"), Str(Txt("Cairo"))>> >>),
     Obj(<< <<Txt("city"), Str(<<>>)>> >>),
     Obj(<< <<Txt("units"), Str(Txt("metric"))>> >>)}

MainSection ==
    Obj(<< <<Txt("temprature"), Num(293)>>,
           <<Txt("temprature_feels_like"), Num(291)>>,
           <<Txt("humidity"), Num(40)>> >>)

WeatherEntry ==
    Obj(<< <<Txt("description"), Str(Txt("clear sky"))>>,
           <<Txt("icon"), Str(Txt("01d"))>> >>)

FullForecast ==
    Obj(<< <<Txt("main"), MainSection>>,
           <<Txt("weather"), Arr(<<WeatherEntry>>)>>,
           <<Txt("wind"), Obj(<< <<Txt("speed"), Num(3)>> >>)>> >>)

Payload(lst) == Obj(<< <<Txt("cod"), Str(Txt("200"))>>, <<Txt("list"), lst>> >>)

ForecastEntries ==
    {FullForecast,
     EmptyDict,
     Obj(<< <<Txt("main"), MainSection>> >>),
     Obj(<< <<Txt("main"), None>> >>),
     Obj(<< <<Txt("weather"), Arr(<<>>)>> >>),
     Obj(<< <<Txt("weather"), Arr(<<None>>)>> >>),
     Obj(<< <<Txt("wind"), Num(3)>> >>),
     None,
     Num(0)}

PayloadObjects ==
    {Payload(Arr(<<f>>)) : f \in ForecastEntries}
    \cup {Payload(Arr(<<FullForecast, EmptyDict>>)),
          Payload(Arr(<<>>)),
          Payload(None),
          Payload(Str(Txt("none"))),
          Obj(<< <<Txt("cod"), Str(Txt("200"))>> >>),
          EmptyDict,
          Arr(<<>>),
          None}

\* response.text
PayloadTexts ==
    {JsonDumps(o) : o \in PayloadObjects}
    \cup {<<>>,
          Txt("<html>"),
          SubSeq(JsonDumps(Payload(Arr(<<FullForecast>>))), 1, 7)}

StatusCodes == {200, 204, 400, 404, 500, 599}

Replies == [status_code : StatusCodes, text : PayloadTexts]

\* datetime.now().isoformat()
Timestamps == {Txt("2024-01-01T00:00:00"), Txt("2024-06-30T23:59:59.999999")}

NoEvent == [body |-> None, queryStringParameters |-> None, received |-> FALSE]
NoException == [cls |-> "none", msg |-> <<>>]
NoUpstream == [kind |-> "none"]
NoResponse == [statusCode |-> 0]

\* ------------------------------------------------------------------------
\* One invocation of lambda_handler
\* ------------------------------------------------------------------------
VARIABLES pc, event, city, calls, upstream, raised, response

vars == <<pc, event, city, calls, upstream, raised, response>>

Init ==
    /\ pc = "idle"
    /\ event = NoEvent
    /\ city = None
    /\ calls = <<>>
    /\ upstream = NoUpstream
    /\ raised = NoException
    /\ response = NoResponse

\* The try block ended with `outcome`: a return, or an exception that goes
\* through the except clauses.
Finish(outcome, reply) ==
    IF outcome.kind = "return"
    THEN /\ pc' = "done"
         /\ raised' = raised
         /\ response' = outcome.response
    ELSE LET handled == Except(outcome.exc, reply) IN
         /\ raised' = outcome.exc
         /\ IF handled.kind = "return"
            THEN pc' = "done" /\ response' = handled.response
            ELSE pc' = "crashed" /\ response' = response

\* lambda_handler(event, context) up to requests.get, or to its return when
\* the request never gets that far.
Invoke ==
    /\ pc = "idle"
    /\ \E body \in Bodies, query \in QueryParams :
         LET ev == [body |-> body, queryStringParameters |-> query,
                    received |-> TRUE]
             outcome == BeforeCall(ev)
         IN /\ event' = ev
            /\ IF outcome.kind = "call"
               THEN /\ pc' = "calling"
                    /\ city' = outcome.city
                    /\ calls' = Append(calls, UpstreamRequest(outcome.city))
                    /\ UNCHANGED <<raised, response>>
               ELSE /\ Finish(outcome, NoUpstream)
                    /\ UNCHANGED <<city, calls>>
    /\ UNCHANGED upstream

\* requests.get raises without a reply: the configured URL is unusable, or
\* the connection cannot be established.
GetRaises ==
    /\ pc = "calling"
    /\ \E cls \in {"MissingSchema", "ConnectionError"} :
         /\ upstream' = [kind |-> "error", cls |-> cls]
         /\ Finish(Raises([cls |-> cls, msg |-> Txt("request failed")]),
                   NoUpstream)
    /\ UNCHANGED <<event, city, calls>>

\* requests.get gives up once the time spent connecting, or the time spent
\* waiting for the reply, exceeds the timeout.
GetTimesOut ==
    /\ pc = "calling"
    /\ \E phase \in {"connect", "read"}, elapsed \in 1..MaxElapsed :
         /\ elapsed > TIMEOUT
         /\ upstream' = [kind |-> "timeout", phase |-> phase,
                         elapsed |-> elapsed]
         /\ Finish(Raises([cls |-> IF phase = "connect" THEN "ConnectTimeout"
                                                        ELSE "ReadTimeout",
                           msg |-> Txt("timed out")]), NoUpstream)
    /\ UNCHANGED <<event, city, calls>>

\* requests.get returns the upstream's reply; the rest of the try block runs.
GetReturns ==
    /\ pc = "calling"
    /\ \E reply \in Replies, now \in Timestamps, jsonError \in ResponseJsonErrors :
         /\ upstream' = [kind |-> "reply", reply |-> reply, now |-> now,
                         jsonError |-> jsonError]
         /\ Finish(AfterReply(city, reply, now, jsonError), reply)
    /\ UNCHANGED <<event, city, calls>>

Next ==
    \/ Invoke
    \/ GetRaises
    \/ GetTimesOut
    \/ GetReturns

Spec == Init /\ [][Next]_vars

\* ------------------------------------------------------------------------
\* Properties
\* ------------------------------------------------------------------------
Done == pc = "done"

\* The decoded response body and its fields.
ResponseJson == JsonLoads(response.body)
HasField(name) == ResponseJson.ok /\ ResponseJson.val.t = "obj"
                  /\ HasKey(ResponseJson.val.m, Txt(name))
Field(name) == Lookup(ResponseJson.val.m, Txt(name))
ErrorIs(message) == HasField("error") /\ Field("error") = Str(Txt(message))

\* text occurs in whole as a contiguous part of within.
Contains(within, text) ==
    \E i \in 0..(Len(within) - Len(text)) :
        SubSeq(within, i + 1, i + Len(text)) = text

\* The request as the caller sees it.
CarriesBody == Truthy(event.body)
BodyJson == JsonLoads(event.body.s)
BodyIsMapping == BodyJson.ok /\ BodyJson.val.t = "obj"
CitySource == IF CarriesBody THEN BodyJson.val ELSE event.queryStringParameters
RequestCity ==
    IF HasKey(CitySource.m, Txt("city")) THEN Lookup(CitySource.m, Txt("city"))
    ELSE None
NeitherBodyNorQuery == ~CarriesBody /\ ~Truthy(event.queryStringParameters)
CityExtracted ==
    /\ ~NeitherBodyNorQuery
    /\ CarriesBody => BodyIsMapping
CityMissingOrEmpty == CityExtracted /\ ~Truthy(RequestCity)
NonEmptyCity == CityExtracted /\ Truthy(RequestCity)

\* What the upstream did.
Replied == upstream.kind = "reply"
Replied2xx == Replied /\ upstream.reply.status_code \in 200..299
RepliedHTTPError == Replied /\ upstream.reply.status_code \in 400..599
PayloadJson == JsonLoads(upstream.reply.text)
PayloadIsMapping == PayloadJson.ok /\ PayloadJson.val.t = "obj"
PayloadHasList == PayloadIsMapping /\ HasKey(PayloadJson.val.m, Txt("list"))
PayloadList == Lookup(PayloadJson.val.m, Txt("list"))

WeatherFields ==
    {"temperature", "feels_like", "description", "icon", "humidity",
     "wind_speed"}

FixedHeaders ==
    [h \in {"Content-Type", "Access-Control-Allow-Origin",
            "Access-Control-Allow-Methods", "Access-Control-Allow-Headers"} |->
        CASE h = "Content-Type" -> "application/json"
          [] h = "Access-Control-Allow-Origin" -> "*"
          [] h = "Access-Control-Allow-Methods" -> "GET,POST,OPTIONS"
          [] h = "Access-Control-Allow-Headers" ->
               "Content-Type,X-Amz-Date,Authorization,X-Api-Key,X-Amz-Security-Token"]

\* C1: every response the handler returns, on every path, carries exactly
\* the fixed header set (content type and the three CORS headers).
C1_FixedHeaders == Done => response.headers = FixedHeaders

C1_Witness ==
    /\ Done
    /\ upstream.kind = "timeout" /\ upstream.phase = "read"
    /\ response.statusCode = 500
    /\ response.headers = FixedHeaders

\* C2: every invocation ends with a returned response that has a status
\* code, the headers and a JSON body: no exception leaves the handler, the
\* handler is never stuck before its return (each step moves pc forward from
\* idle through calling to done), and what it returns is structured.
StructuredResponse ==
    /\ DOMAIN response = {"statusCode", "headers", "body"}
    /\ response.statusCode \in 100..599
    /\ DOMAIN response.headers # {}
    /\ ResponseJson.ok

C2_AlwaysResponds ==
    /\ pc # "crashed"
    /\ pc \in {"idle", "calling"} => ENABLED Next
    /\ pc = "done" => StructuredResponse

C2_Witness ==
    /\ Done
    /\ Replied2xx
    /\ raised.cls = "IndexError"
    /\ StructuredResponse

\* C3: a non-empty city and a 2xx reply whose payload has a non-empty
\* forecast list give status 200 with body.city equal to the input city,
\* whatever the first forecast entry is.
C3_SuccessEchoesCity ==
    (/\ Done
     /\ NonEmptyCity
     /\ Replied2xx
     /\ PayloadHasList
     /\ PayloadList.t = "arr"
     /\ Len(PayloadList.e) > 0)
    => /\ response.statusCode = 200
       /\ HasField("city")
       /\ Field("city") = RequestCity

\* C4: a 2xx reply whose payload has an empty forecast list, or none, gives
\* status 200 with the six weather fields null.
C4_EmptyListAllNull ==
    (/\ Done
     /\ Replied2xx
     /\ PayloadIsMapping
     /\ PayloadHasList => (PayloadList.t = "arr" /\ Len(PayloadList.e) = 0))
    => /\ response.statusCode = 200
       /\ \A f \in WeatherFields : HasField(f) /\ Field(f) = None

\* C5: an upstream call that exceeds the timeout, while connecting or while
\* waiting for the reply, gives status 500 with the timed-out error.
C5_TimeoutMessage ==
    (Done /\ upstream.kind = "timeout")
    => /\ response.statusCode = 500
       /\ ErrorIs("Request to external API timed out.")

\* C6: a 4xx/5xx reply is passed through: same status code, the fetch-failed
\* error, details containing the reply's text, and no weather result.
C6_HTTPErrorPassThrough ==
    (Done /\ RepliedHTTPError)
    => /\ response.statusCode = upstream.reply.status_code
       /\ ErrorIs("Failed to fetch weather data from external API.")
       /\ HasField("details")
       /\ Field("details").t = "str"
       /\ Contains(Field("details").s, upstream.reply.text)
       /\ \A f \in WeatherFields \cup {"city"} : ~HasField(f)

C6_Witness ==
    /\ Done
    /\ Replied /\ upstream.reply.status_code = 404
    /\ Len(upstream.reply.text) > 0
    /\ PayloadJson.ok
    /\ response.statusCode = 404

\* C7: a body that does not parse to a mapping (unparsable, or parsing to
\* something else) gives status 400 with the invalid-JSON error.
C7_BadBodyIs400 ==
    (Done /\ CarriesBody /\ ~BodyIsMapping)
    => /\ response.statusCode = 400
       /\ ErrorIs("Invalid JSON in request body.")

\* C8: a request that yields no non-empty city gives status 400; the error
\* says the parameter is missing when there is neither body nor query, and
\* that it is required when the extracted city is absent or empty.
C8_NoCityIs400 ==
    (Done /\ ~NonEmptyCity)
    => /\ response.statusCode = 400
       /\ NeitherBodyNorQuery =>
             ErrorIs("City parameter missing in request body or query string.")
       /\ CityMissingOrEmpty => ErrorIs("City parameter is required.")

\* C9: the upstream is called at most once per invocation, only for a
\* request with a non-empty city and with that city as the place; no
\* failure of the call leads to another call.
C9_AtMostOneCall ==
    /\ Len(calls) <= 1
    /\ Len(calls) = 1 =>
          /\ event.received
          /\ NonEmptyCity
          /\ Lookup(calls[1].params.m, Txt("place")) = RequestCity
    /\ (pc = "done" /\ upstream.kind \in {"error", "timeout"}) => Len(calls) = 1
    /\ (pc = "done" /\ RepliedHTTPError) => Len(calls) = 1

C9_Witness ==
    /\ Done
    /\ upstream.kind = "error" /\ upstream.cls = "ConnectionError"
    /\ Len(calls) = 1

\* C10: the invalid-JSON 400 is returned only when the request body failed
\* to parse; a failure after a 2xx reply is a 500 internal server error.
C10_InvalidJSONOnlyForBody ==
    /\ (Done /\ ErrorIs("Invalid JSON in request body."))
          => (CarriesBody /\ ~BodyJson.ok)
    /\ (Done /\ Replied2xx /\ raised.cls # "none")
          => (response.statusCode = 500 /\ ErrorIs("Internal server error."))

====
